---- MODULE Spec2Model ----
(***************************************************************************)
(* Model of the invoice-extractor page scripts:                            *)
(*   scripts/paddle_ocr.py      build_clean_text, extract                  *)
(*   scripts/vlm_preprocess.py  save_capped_jpeg, preprocess               *)
(* A fragment is the Python tuple (text, y, x): f[1] = text, f[2] = y,     *)
(* f[3] = x.                                                               *)
(***************************************************************************)
EXTENDS Integers, Sequences, FiniteSets, TLC

VARIABLES
    pc,          \* position of the running function
    input,       \* build_clean_text: the argument as passed by the caller
    fragments,   \* build_clean_text: the list, sorted in place at line 51
    rows,        \* build_clean_text: the rows list of lines 55-65
    text,        \* build_clean_text: the returned string
    dir,         \* the indices n for which <image_dir>/page_<n>.png exists
    images,      \* the images list of the page discovery (a path is its index)
    page_num,    \* the page_num counter of the page discovery
    it,          \* how many elements of images the page loop has taken
    visited,     \* the img_path values the page loop body has been entered with
    page_texts,  \* extract: the page_texts list
    ocr_seen,    \* extract: what ocr.ocr(img_path) did for each page taken
    ret,         \* <<value>> once extract / preprocess has returned, else <<>>
    error,       \* the message of the exception that left the function, else ""
    exit_code,   \* the process exit status of __main__, -1 while running
    disk,        \* preprocess: what the file page_<n>.png holds, for n in dir
    img,         \* the working image (img of preprocess and of save_capped_jpeg)
    info,        \* preprocess: the info record of the page in hand
    pages,       \* preprocess: the pages list
    angle,       \* preprocess: the angle of the page in hand
    tmp_path,    \* preprocess: tmp_path of the page in hand, 0 for None / unset
    tmps,        \* the temporary files that exist on disk (named by their page)
    stage,       \* preprocess: how the unwarping stage of the page in hand went:
                 \* "" not run, "array", "other", "raise", or "unsaved" (line 112)
    buf,         \* save_capped_jpeg: buf.tell(), -1 before the first encoding
    first_buf,   \* save_capped_jpeg: buf.tell() after line 42, -1 before it
    resizes,     \* save_capped_jpeg: iterations of the while loop run so far
                 \* (a count kept for the properties; it stops at MaxResizes)
    caller,      \* who called save_capped_jpeg: "main", "fallback" or "direct"
    files        \* the output files written: records [page, origin, bytes]

rowVars == <<input, fragments, rows, text>>
dirVars == <<dir, images, page_num>>
exVars == <<page_texts, ocr_seen>>
outVars == <<ret, error, exit_code>>
preVars == <<disk, img, info, pages, angle, tmp_path, tmps, stage>>
jpegVars == <<buf, first_buf, resizes, caller, files>>
imgVars == <<preVars, jpegVars>>
vars == <<pc, rowVars, dirVars, it, visited, exVars, outVars, imgVars>>

(***************************************************************************)
(* Bounds of the model and the input alphabets.                            *)
(***************************************************************************)
MaxFrags == 3
MaxPages == 3
MaxPrePages == 2
MaxDim == 6
MaxResizes == 8
MaxRecs == 2

Texts == {"a", "b"}
YVals == {0, 49, 50, 60, 100}
XVals == {10, 300}
Frags == Texts \X YVals \X XVals

RECURSIVE SeqsUpTo(_, _)
SeqsUpTo(S, n) ==
    IF n = 0 THEN {<<>>}
    ELSE LET shorter == SeqsUpTo(S, n - 1)
         IN  shorter \cup {Append(s, e) : s \in {t \in shorter : Len(t) = n - 1}, e \in S}

(***************************************************************************)
(* build_clean_text (paddle_ocr.py 39-69)                                  *)
(***************************************************************************)
ROW_THRESHOLD == 50

NoTextEmpty == ""

\* line 48
NO_TEXT == "[No text detected]"

Abs(n) == IF n < 0 THEN -n ELSE n

\* key=lambda f: (f[1], f[2]) : Python compares the tuples lexicographically
KeyYXLess(a, b) == a[2] < b[2] \/ (a[2] = b[2] /\ a[3] < b[3])

\* key=lambda f: f[2]
KeyXLess(a, b) == a[3] < b[3]

\* list.sort is stable: an element goes after every element that is not greater
RECURSIVE InsertYX(_, _)
InsertYX(s, e) ==
    IF s = <<>> THEN <<e>>
    ELSE IF KeyYXLess(e, s[Len(s)]) THEN Append(InsertYX(SubSeq(s, 1, Len(s) - 1), e), s[Len(s)])
    ELSE Append(s, e)

RECURSIVE SortByYXFrom(_, _, _)
SortByYXFrom(acc, s, i) ==
    IF i > Len(s) THEN acc ELSE SortByYXFrom(InsertYX(acc, s[i]), s, i + 1)

SortByYX(s) == SortByYXFrom(<<>>, s, 1)

RECURSIVE InsertX(_, _)
InsertX(s, e) ==
    IF s = <<>> THEN <<e>>
    ELSE IF KeyXLess(e, s[Len(s)]) THEN Append(InsertX(SubSeq(s, 1, Len(s) - 1), e), s[Len(s)])
    ELSE Append(s, e)

RECURSIVE SortByXFrom(_, _, _)
SortByXFrom(acc, s, i) ==
    IF i > Len(s) THEN acc ELSE SortByXFrom(InsertX(acc, s[i]), s, i + 1)

SortRowByXNone(row) == row

\* row.sort(key=lambda f: f[2])
SortRowByX(row) == SortByXFrom(<<>>, row, 1)

JoinsRowChained(rs, f) ==
    rs # <<>> /\ Abs(f[2] - rs[Len(rs)][Len(rs[Len(rs)])][2]) < ROW_THRESHOLD

JoinsRowInclusive(rs, f) ==
    rs # <<>> /\ Abs(f[2] - rs[Len(rs)][1][2]) <= ROW_THRESHOLD

\* line 57: rows and abs(y - rows[-1][0][1]) < ROW_THRESHOLD
JoinsRow(rs, f) ==
    rs # <<>> /\ Abs(f[2] - rs[Len(rs)][1][2]) < ROW_THRESHOLD

GroupOneKeepsLast(rs, f) ==
    IF JoinsRow(rs, f)
    THEN [rs EXCEPT ![Len(rs)] = <<f>>]
    ELSE Append(rs, <<f>>)

\* lines 56-60: one iteration of the grouping loop
GroupOne(rs, f) ==
    IF JoinsRow(rs, f)
    THEN [rs EXCEPT ![Len(rs)] = Append(@, f)]
    ELSE Append(rs, <<f>>)

RECURSIVE GroupFrom(_, _, _)
GroupFrom(rs, s, i) ==
    IF i > Len(s) THEN rs ELSE GroupFrom(GroupOne(rs, s[i]), s, i + 1)

\* lines 55-60
GroupRows(s) == GroupFrom(<<>>, s, 1)

RECURSIVE JoinStr(_, _)
JoinStr(parts, sep) ==
    IF parts = <<>> THEN ""
    ELSE IF Len(parts) = 1 THEN parts[1]
    ELSE JoinStr(SubSeq(parts, 1, Len(parts) - 1), sep) \o sep \o parts[Len(parts)]

RowLineOneSpace(row) == JoinStr([k \in 1..Len(row) |-> row[k][1]], " ")

\* line 66: "    ".join(f[0] for f in row)
RowLine(row) == JoinStr([k \in 1..Len(row) |-> row[k][1]], "    ")

\* lines 63-69 on the rows already sorted by x
PageText(rs) == JoinStr([r \in 1..Len(rs) |-> RowLine(rs[r])], "\n")

\* lines 39-69 as one function
BuildCleanText(frs) ==
    IF frs = <<>> THEN NO_TEXT
    ELSE LET grouped == GroupRows(SortByYX(frs))
         IN  PageText([r \in 1..Len(grouped) |-> SortRowByX(grouped[r])])

NoImage == [w |-> 0, h |-> 0, mode |-> "", origin |-> ""]
NoInfo == [page |-> 0, rotated |-> 0, unwarped |-> FALSE, file |-> ""]

\* preprocess and save_capped_jpeg are not running
ImagesIdle ==
    /\ disk = <<>>
    /\ img = NoImage
    /\ info = NoInfo
    /\ pages = <<>>
    /\ angle = 0
    /\ tmp_path = 0
    /\ tmps = {}
    /\ stage = ""
    /\ buf = -1
    /\ first_buf = -1
    /\ resizes = 0
    /\ caller = ""
    /\ files = {}

\* the page pipelines are not running
PagesIdle ==
    /\ ImagesIdle
    /\ dir = {}
    /\ images = <<>>
    /\ page_num = 1
    /\ it = 0
    /\ visited = <<>>
    /\ page_texts = <<>>
    /\ ocr_seen = <<>>
    /\ ret = <<>>
    /\ error = ""
    /\ exit_code = -1

InitRows ==
    /\ pc = "bct_start"
    /\ input \in SeqsUpTo(Frags, MaxFrags)
    /\ fragments = input
    /\ rows = <<>>
    /\ text = ""
    /\ PagesIdle

\* lines 47-48
ReturnNoText ==
    /\ pc = "bct_start"
    /\ fragments = <<>>
    /\ text' = NO_TEXT
    /\ pc' = "bct_done"
    /\ UNCHANGED <<input, fragments, rows>>
    /\ UNCHANGED <<dirVars, it, visited, exVars, outVars, imgVars>>

\* line 51
SortFragments ==
    /\ pc = "bct_start"
    /\ fragments # <<>>
    /\ fragments' = SortByYX(fragments)
    /\ pc' = "bct_sorted"
    /\ UNCHANGED <<input, rows, text>>
    /\ UNCHANGED <<dirVars, it, visited, exVars, outVars, imgVars>>

\* lines 53-60
GroupFragments ==
    /\ pc = "bct_sorted"
    /\ rows' = GroupRows(fragments)
    /\ pc' = "bct_grouped"
    /\ UNCHANGED <<input, fragments, text>>
    /\ UNCHANGED <<dirVars, it, visited, exVars, outVars, imgVars>>

\* lines 62-69
SerializeRows ==
    /\ pc = "bct_grouped"
    /\ rows' = [r \in 1..Len(rows) |-> SortRowByX(rows[r])]
    /\ text' = PageText(rows')
    /\ pc' = "bct_done"
    /\ UNCHANGED <<input, fragments>>
    /\ UNCHANGED <<dirVars, it, visited, exVars, outVars, imgVars>>

NextRows == ReturnNoText \/ SortFragments \/ GroupFragments \/ SerializeRows

SpecRows == InitRows /\ [][NextRows]_vars

\* fragment lists whose texts hold spaces, "$" and the text of NO_TEXT itself
MilkExample ==
    << <<"Milk", 100, 10>>, <<"$3.99", 102, 300>>, <<"Eggs", 200, 10>>, <<"$4.50", 198, 300>> >>

Orders(s) == {o \in [DOMAIN s -> DOMAIN s] : \A i, j \in DOMAIN s : o[i] = o[j] => i = j}

SentinelFrags == {"a", NO_TEXT} \X {0, 50} \X {10, 300}

\* the four fragments of MilkExample in every order
InitExample ==
    /\ pc = "bct_start"
    /\ input \in {[i \in DOMAIN MilkExample |-> MilkExample[o[i]]] : o \in Orders(MilkExample)}
    /\ fragments = input
    /\ rows = <<>>
    /\ text = ""
    /\ PagesIdle

InitSentinel ==
    /\ pc = "bct_start"
    /\ input \in SeqsUpTo(SentinelFrags, MaxFrags)
    /\ fragments = input
    /\ rows = <<>>
    /\ text = ""
    /\ PagesIdle

SpecRowsText == (InitExample \/ InitSentinel) /\ [][NextRows]_vars

(***************************************************************************)
(* Vocabulary of the row-reconstruction properties.                        *)
(***************************************************************************)
Count(s, f) == Cardinality({i \in DOMAIN s : s[i] = f})

SamePieces(s, t) == Len(s) = Len(t) /\ \A i \in DOMAIN s : Count(s, s[i]) = Count(t, s[i])

SortedByYX(s) == \A i \in 1..(Len(s) - 1) : ~KeyYXLess(s[i + 1], s[i])

RECURSIVE Flatten(_)
Flatten(rs) == IF rs = <<>> THEN <<>> ELSE Flatten(SubSeq(rs, 1, Len(rs) - 1)) \o rs[Len(rs)]

\* how many fragments lie in the rows before row r
RECURSIVE Before(_, _)
Before(rs, r) == IF r <= 1 THEN 0 ELSE Before(rs, r - 1) + Len(rs[r - 1])

\* the row holding the k-th fragment of the sorted list
RowOf(rs, k) == CHOOSE r \in 1..Len(rs) : Before(rs, r) < k /\ k <= Before(rs, r) + Len(rs[r])

\* the k-th sorted fragment is the first fragment of its row
IsRowAnchor(rs, k) == k = Before(rs, RowOf(rs, k)) + 1

\* i..j is a chain: every fragment is less than the threshold from its predecessor,
\* it starts at a row's first fragment and ends the threshold or more away from it
AnchoredChain(rs, s, i, j) ==
    /\ i < j
    /\ IsRowAnchor(rs, i)
    /\ \A k \in i..(j - 1) : Abs(s[k + 1][2] - s[k][2]) < ROW_THRESHOLD
    /\ Abs(s[j][2] - s[i][2]) >= ROW_THRESHOLD

\* C1: after the sort by (anchor_y, anchor_x) the rows partition the sorted list in
\* order, every fragment of a row is less than 50 from the anchor_y of the row's
\* first fragment, and the first fragment of every later row is 50 or more from the
\* anchor_y of the first fragment of the row before it (the greedy fold's partition).
C1_RowGroupingRule ==
    pc = "bct_grouped" =>
        /\ SortedByYX(fragments)
        /\ SamePieces(fragments, input)
        /\ Flatten(rows) = fragments
        /\ \A r \in 1..Len(rows) :
              /\ rows[r] # <<>>
              /\ \A k \in 2..Len(rows[r]) :
                    Abs(rows[r][k][2] - rows[r][1][2]) < ROW_THRESHOLD
              /\ r > 1 => Abs(rows[r][1][2] - rows[r - 1][1][2]) >= ROW_THRESHOLD

C1_Witness ==
    /\ pc = "bct_grouped"
    /\ fragments # input
    /\ \E r \in 1..(Len(rows) - 1) :
          /\ Len(rows[r]) >= 2
          /\ rows[r][Len(rows[r])][2] - rows[r][1][2] = ROW_THRESHOLD - 1
          /\ rows[r + 1][1][2] - rows[r][1][2] = ROW_THRESHOLD

\* C2 as stated: a chain that starts at a row's first fragment, each fragment less
\* than 50 from its predecessor, the last one 50 or more from the first, stays in
\* one row.
C2_ChainStaysInOneRow ==
    pc = "bct_grouped" =>
        \A i, j \in 1..Len(fragments) :
            AnchoredChain(rows, fragments, i, j) =>
                \A k \in i..j : RowOf(rows, k) = RowOf(rows, i)

\* C2 amended: such a chain does split. Every fragment of the chain that is 50 or
\* more from the anchor_y of the row's first fragment lies in a later row, and the
\* fragments of the chain less than 50 from it stay in that row.
C2_ChainSplitsAtRowAnchor ==
    pc = "bct_grouped" =>
        \A i, j \in 1..Len(fragments) :
            AnchoredChain(rows, fragments, i, j) =>
                \A k \in i..j :
                    IF Abs(fragments[k][2] - fragments[i][2]) >= ROW_THRESHOLD
                    THEN RowOf(rows, k) > RowOf(rows, i)
                    ELSE RowOf(rows, k) = RowOf(rows, i)

C2_Witness ==
    /\ pc = "bct_grouped"
    /\ \E i, j \in 1..Len(fragments) :
          /\ AnchoredChain(rows, fragments, i, j)
          /\ j = i + 2
          /\ RowOf(rows, i + 1) = RowOf(rows, i)
          /\ RowOf(rows, j) = RowOf(rows, i) + 1

\* C10: in the output every row is in non-decreasing anchor_x order, and the rows are
\* in non-decreasing order of the anchor_y of their first fragment, both for the
\* first fragment at grouping time and for the first fragment after the sort by x.
C10_OutputOrderMonotonic ==
    /\ pc \in {"bct_grouped", "bct_done"} =>
          \A r \in 1..(Len(rows) - 1) : rows[r][1][2] <= rows[r + 1][1][2]
    /\ pc = "bct_done" =>
          \A r \in 1..Len(rows) :
              \A k \in 1..(Len(rows[r]) - 1) : rows[r][k][3] <= rows[r][k + 1][3]

C10_Witness ==
    /\ pc = "bct_done"
    /\ Len(rows) >= 2
    /\ \E r \in 1..(Len(rows) - 1) :
          /\ rows[r] # GroupRows(fragments)[r]
          /\ rows[r][1][2] > GroupRows(fragments)[r][1][2]

\* i..j of the sorted list is chained: every fragment is less than the threshold
\* from its predecessor
Chained(s, i, j) == \A k \in i..(j - 1) : Abs(s[k + 1][2] - s[k][2]) < ROW_THRESHOLD

\* C11: two fragments whose anchor_y differ by 50 or more lie in different rows
\* whenever the fragments between them in the sorted list do not chain them, and
\* the later of the two lies in the later row.
C11_FarFragmentsInDifferentRows ==
    pc = "bct_grouped" =>
        \A i, j \in 1..Len(fragments) :
            (/\ i < j
             /\ Abs(fragments[i][2] - fragments[j][2]) >= ROW_THRESHOLD
             /\ ~Chained(fragments, i, j)) =>
                RowOf(rows, i) < RowOf(rows, j)

C11_Witness ==
    /\ pc = "bct_grouped"
    /\ \E i, j \in 1..Len(fragments) :
          /\ j = i + 2
          /\ fragments[j][2] - fragments[i][2] = ROW_THRESHOLD
          /\ fragments[i + 1][2] = fragments[i][2]
          /\ ~Chained(fragments, i, j)
          /\ RowOf(rows, i + 1) = RowOf(rows, i)
          /\ RowOf(rows, j) = RowOf(rows, i) + 1

\* str.split(sep) of Python: the pieces of str between the occurrences of sep,
\* found from the left
RECURSIVE SplitFrom(_, _, _, _)
SplitFrom(str, sep, start, i) ==
    IF i + Len(sep) - 1 > Len(str) THEN <<SubSeq(str, start, Len(str))>>
    ELSE IF SubSeq(str, i, i + Len(sep) - 1) = sep
         THEN <<SubSeq(str, start, i - 1)>> \o SplitFrom(str, sep, i + Len(sep), i + Len(sep))
         ELSE SplitFrom(str, sep, start, i + 1)

SplitOn(str, sep) == SplitFrom(str, sep, 1, 1)

\* C12: the page text of a non-empty input splits at the newlines into exactly one
\* line per row, in row order, and every line splits at the runs of four spaces
\* into exactly the texts of its row, in order (so no separator leads or trails);
\* the four Milk / Eggs fragments give "Milk    $3.99\nEggs    $4.50" in every
\* input order.
C12_PageTextLayout ==
    /\ (pc = "bct_done" /\ input # <<>>) =>
          LET lines == SplitOn(text, "\n")
          IN  /\ Len(lines) = Len(rows)
              /\ \A r \in 1..Len(rows) :
                    SplitOn(lines[r], "    ") = [k \in 1..Len(rows[r]) |-> rows[r][k][1]]
    /\ (pc = "bct_done" /\ SamePieces(input, MilkExample)) =>
          text = "Milk    $3.99\nEggs    $4.50"

C12_Witness ==
    /\ pc = "bct_done"
    /\ SamePieces(input, MilkExample)
    /\ input[1] = MilkExample[4]
    /\ input[2] = MilkExample[3]
    /\ Len(rows) = 2
    /\ text # ""

\* C13 as stated: build_clean_text returns "[No text detected]" for the empty
\* fragment list and for no non-empty one.
C13_SentinelOnlyForEmpty ==
    pc = "bct_done" => (text = "[No text detected]" <=> input = <<>>)

\* C13 amended: build_clean_text returns "[No text detected]" for the empty
\* fragment list, and for a non-empty one only when it is a single fragment whose
\* text is "[No text detected]" itself.
C13_SentinelForEmptyOrSentinelText ==
    pc = "bct_done" =>
        (text = "[No text detected]" <=>
            \/ input = <<>>
            \/ Len(input) = 1 /\ input[1][1] = "[No text detected]")

C13_Witness ==
    /\ pc = "bct_done"
    /\ Len(input) = 1
    /\ input[1][1] = "[No text detected]"
    /\ rows = <<input>>
    /\ text = "[No text detected]"

\* the texts of a list of fragments, in order
TextsOf(s) == [k \in 1..Len(s) |-> s[k][1]]

\* the texts read back from a page text: its lines, each split at four spaces
TextsIn(str) ==
    LET lines == SplitOn(str, "\n")
    IN  Flatten([r \in 1..Len(lines) |-> SplitOn(lines[r], "    ")])

\* C20: build_clean_text neither loses nor duplicates a fragment. The rows hold
\* the input fragments, each occurrence in exactly one row (a fragment given twice
\* is held twice), no row is empty, and the texts read back from the returned
\* string are the input texts, as multisets.
C20_NoFragmentLostOrDuplicated ==
    /\ pc \in {"bct_grouped", "bct_done"} =>
          /\ SamePieces(Flatten(rows), input)
          /\ \A r \in 1..Len(rows) : rows[r] # <<>>
    /\ (pc = "bct_done" /\ input # <<>>) =>
          SamePieces(TextsIn(text), TextsOf(input))

C20_Witness ==
    /\ pc = "bct_done"
    /\ Len(input) = 3
    /\ input[1] = input[3]
    /\ input[2][2] >= input[1][2] + ROW_THRESHOLD
    /\ Len(rows) = 2
    /\ rows[1] = <<input[1], input[1]>>
    /\ TextsIn(text) = <<input[1][1], input[1][1], input[2][1]>>

(***************************************************************************)
(* Page discovery (paddle_ocr.py 81-92, vlm_preprocess.py 72-83)           *)
(***************************************************************************)
IMAGE_DIR == "pages"

PageExistsOrLater(n) == \E m \in dir : m >= n

\* os.path.exists(os.path.join(image_dir, f"page_{page_num}.png"))
PageExists(n) == n \in dir

NoPagesMessage == "No page_*.png images found in " \o IMAGE_DIR

\* lines 85-89 when the path exists
FindPage ==
    /\ PageExists(page_num)
    /\ images' = Append(images, page_num)
    /\ page_num' = page_num + 1
    /\ UNCHANGED dir

\* lines 86-87: break
FindStop ==
    /\ ~PageExists(page_num)
    /\ UNCHANGED dirVars

ExitWithStatusZero(msg) ==
    /\ error' = msg
    /\ exit_code' = 0
    /\ ret' = <<>>

\* __main__: the exception is printed as {"error": str(e)} and the process exits 1
ExitWithError(msg) ==
    /\ error' = msg
    /\ exit_code' = 1
    /\ ret' = <<>>

(***************************************************************************)
(* extract (paddle_ocr.py 72-144)                                          *)
(* A score is in hundredths (0.30 is 30); a polygon coordinate is in       *)
(* tenths of a pixel, int() cuts the fraction.                             *)
(***************************************************************************)
MIN_CONFIDENCE == 30

RECURSIVE LStrip(_)
LStrip(str) ==
    IF Len(str) > 0 /\ SubSeq(str, 1, 1) = " " THEN LStrip(SubSeq(str, 2, Len(str))) ELSE str

RECURSIVE RStrip(_)
RStrip(str) ==
    IF Len(str) > 0 /\ SubSeq(str, Len(str), Len(str)) = " "
    THEN RStrip(SubSeq(str, 1, Len(str) - 1)) ELSE str

\* str.strip()
Strip(str) == LStrip(RStrip(str))

\* int(v) of a coordinate held in tenths: truncation toward zero
IntOf(v) == IF v >= 0 THEN v \div 10 ELSE -((-v) \div 10)

MinOf(S) == CHOOSE m \in S : \A n \in S : m <= n

\* min(p[0] for p in poly), min(p[1] for p in poly): a point is <<x, y>>
MinX(poly) == MinOf({poly[k][1] : k \in DOMAIN poly})
MinY(poly) == MinOf({poly[k][2] : k \in DOMAIN poly})

DroppedKeepsBlank(rec) == rec.score < MIN_CONFIDENCE

DroppedBelowOrAt(rec) == rec.score <= MIN_CONFIDENCE \/ Strip(rec.text) = ""

\* lines 116, 126: score < MIN_CONFIDENCE or not text.strip()
Dropped(rec) == rec.score < MIN_CONFIDENCE \/ Strip(rec.text) = ""

\* lines 118-120, 128-130
FragmentOf(rec) == <<Strip(rec.text), IntOf(MinY(rec.poly)), IntOf(MinX(rec.poly))>>

\* lines 114-120 and 123-130: the kept recognitions in order; min() of a polygon
\* with no vertex raises ValueError
RECURSIVE CollectFrom(_, _, _)
CollectFrom(acc, recs, i) ==
    IF i > Len(recs) THEN [ok |-> TRUE, frags |-> acc, msg |-> ""]
    ELSE IF Dropped(recs[i]) THEN CollectFrom(acc, recs, i + 1)
    ELSE IF recs[i].poly = <<>>
         THEN [ok |-> FALSE, frags |-> <<>>, msg |-> "min() arg is an empty sequence"]
    ELSE CollectFrom(Append(acc, FragmentOf(recs[i])), recs, i + 1)

Collect(recs) == CollectFrom(<<>>, recs, 1)

FailedTextNoReason(msg) == "[PaddleOCR extraction failed]"

\* line 136
FailedText(msg) == "[PaddleOCR extraction failed: " \o msg \o "]"

NO_RESULTS == "[No OCR results]"

\* lines 100-136: the text appended to page_texts for one page, given what
\* ocr.ocr(img_path) did
ExtractPageText(o) ==
    IF o.kind = "raise" THEN FailedText(o.msg)
    ELSE IF o.kind = "falsy" THEN NO_RESULTS
    ELSE IF o.kind = "legacy" /\ o.recs = <<>> THEN NO_RESULTS
    ELSE LET c == Collect(o.recs)
         IN  IF c.ok THEN BuildCleanText(c.frags) ELSE FailedText(c.msg)

\* what the OCR engine can do for a page --------------------------------
PolyMilk == <<<<100, 1000>>, <<905, 1004>>, <<905, 1250>>, <<100, 1250>>>>
PolyPrice == <<<<3007, 1029>>, <<3600, 1020>>, <<3600, 1260>>, <<3000, 1260>>>>
PolyEggs == <<<<109, 2000>>, <<800, 2000>>, <<800, 2300>>, <<100, 2300>>>>

RecMilk == [text |-> "Milk", score |-> 95, poly |-> PolyMilk]
RecPrice == [text |-> " $3.99 ", score |-> 30, poly |-> PolyPrice]
RecEggs == [text |-> "Eggs", score |-> 72, poly |-> PolyEggs]
RecFaint == [text |-> "Eggs", score |-> 29, poly |-> PolyEggs]
RecBlank == [text |-> "  ", score |-> 99, poly |-> PolyEggs]
RecNoPoly == [text |-> "Tax", score |-> 80, poly |-> <<>>]

Raises(m) == [kind |-> "raise", msg |-> m, recs |-> <<>>]
Falsy == [kind |-> "falsy", msg |-> "", recs |-> <<>>]
Mapping(recs) == [kind |-> "mapping", msg |-> "", recs |-> recs]
Legacy(recs) == [kind |-> "legacy", msg |-> "", recs |-> recs]

OcrOutcomes ==
    { Raises("out of memory"), Raises("cannot identify image file"),
      Falsy, Legacy(<<>>), Mapping(<<>>),
      Mapping(<<RecPrice, RecEggs, RecMilk>>), Mapping(<<RecFaint, RecBlank>>),
      Legacy(<<RecEggs, RecFaint, RecMilk>>), Legacy(<<RecBlank>>),
      Mapping(<<RecMilk, RecNoPoly>>) }

FullText(texts) == JoinStr(texts, "\n\n---\n\n")

InitExtract ==
    /\ pc = "ex_find"
    /\ dir \in SUBSET (1..MaxPages)
    /\ images = <<>>
    /\ page_num = 1
    /\ it = 0
    /\ visited = <<>>
    /\ page_texts = <<>>
    /\ ocr_seen = <<>>
    /\ ret = <<>>
    /\ error = ""
    /\ exit_code = -1
    /\ input = <<>>
    /\ fragments = <<>>
    /\ rows = <<>>
    /\ text = ""
    /\ ImagesIdle

\* lines 84-89, one iteration that finds the page
ExFindPage ==
    /\ pc = "ex_find"
    /\ FindPage
    /\ UNCHANGED <<pc, rowVars, imgVars, it, visited, exVars, outVars>>

\* lines 86-87
ExFindStop ==
    /\ pc = "ex_find"
    /\ FindStop
    /\ pc' = "ex_found"
    /\ UNCHANGED <<rowVars, imgVars, it, visited, exVars, outVars>>

\* lines 91-92 and 160-164
ExNoPages ==
    /\ pc = "ex_found"
    /\ images = <<>>
    /\ ExitWithError(NoPagesMessage)
    /\ pc' = "ex_failed"
    /\ UNCHANGED <<rowVars, imgVars, dirVars, it, visited, exVars>>

\* line 95: the engine is loaded once; loading can fail
ExLoadOcr ==
    /\ pc = "ex_found"
    /\ images # <<>>
    /\ \/ /\ pc' = "ex_loop"
          /\ UNCHANGED outVars
       \/ /\ pc' = "ex_failed"
          /\ ExitWithError("PaddleOCR could not be created")
    /\ UNCHANGED <<rowVars, imgVars, dirVars, it, visited, exVars>>

\* lines 99-136: one iteration of the page loop
ExPage ==
    /\ pc = "ex_loop"
    /\ it < Len(images)
    /\ \E o \in OcrOutcomes :
          /\ ocr_seen' = Append(ocr_seen, o)
          /\ page_texts' = Append(page_texts, ExtractPageText(o))
    /\ it' = it + 1
    /\ visited' = Append(visited, images[it + 1])
    /\ UNCHANGED <<pc, rowVars, imgVars, dirVars, outVars>>

\* lines 138-144 and 158-159
ExReturn ==
    /\ pc = "ex_loop"
    /\ it = Len(images)
    /\ ret' = <<[fullText |-> FullText(page_texts), pages |-> page_texts,
                totalPages |-> Len(images)]>>
    /\ exit_code' = 0
    /\ pc' = "ex_done"
    /\ UNCHANGED <<rowVars, imgVars, dirVars, it, visited, exVars, error>>

NextExtract ==
    ExFindPage \/ ExFindStop \/ ExNoPages \/ ExLoadOcr \/ ExPage \/ ExReturn

SpecExtract == InitExtract /\ [][NextExtract]_vars

\* C5 as stated: a page whose OCR call raised with message m has the text
\* "[OCR extraction failed: m]".
C5_FailedPageTextAsStated ==
    \A i \in 1..Len(page_texts) :
        ocr_seen[i].kind = "raise" =>
            page_texts[i] = "[OCR extraction failed: " \o ocr_seen[i].msg \o "]"

\* C5 amended: a page whose OCR call raised with message m has the text
\* "[PaddleOCR extraction failed: m]"; one text is appended per page taken, a text
\* once appended is never changed by a later page, and the text of every other page
\* is the one its own OCR result gives.
C5_FailedPageText ==
    /\ Len(page_texts) = it
    /\ Len(ocr_seen) = it
    /\ \A i \in 1..Len(page_texts) :
          IF ocr_seen[i].kind = "raise"
          THEN page_texts[i] = "[PaddleOCR extraction failed: " \o ocr_seen[i].msg \o "]"
          ELSE page_texts[i] = ExtractPageText(ocr_seen[i])
    /\ pc = "ex_done" => ret[1].pages = page_texts

C5_Witness ==
    /\ pc = "ex_done"
    /\ Len(page_texts) = 3
    /\ ocr_seen[2].kind = "raise"
    /\ ocr_seen[1] = Mapping(<<RecPrice, RecEggs, RecMilk>>)
    /\ page_texts[1] = "Milk    $3.99\nEggs"
    /\ ocr_seen[3].kind = "legacy"
    /\ page_texts[3] = "Milk\nEggs"

\* the string has a character that is not a space
HasInk(str) == \E j \in 1..Len(str) : SubSeq(str, j, j) # " "

\* the recognition passes both filters
Kept(rec) == rec.score >= 30 /\ HasInk(rec.text)

\* the OCR call returned and no recognition of its result passes the filters
YieldsNoRows(o) == o.kind # "raise" /\ \A k \in 1..Len(o.recs) : ~Kept(o.recs[k])

\* C14 as stated: every page that yields zero rows has the page text
\* "[No text detected]", whether the engine returned no recognitions at all or
\* recognitions that were all dropped.
C14_NoRowsGivesSentinel ==
    \A i \in 1..Len(page_texts) :
        YieldsNoRows(ocr_seen[i]) => page_texts[i] = "[No text detected]"

\* C14 amended: a page that yields zero rows has the page text "[No OCR results]"
\* when the engine returned nothing or an empty first element, and
\* "[No text detected]" when it returned a result whose recognitions were all
\* dropped or a mapping with no recognition; never the empty string or an error
\* text.
C14_NoRowsGivesPlaceholder ==
    \A i \in 1..Len(page_texts) :
        YieldsNoRows(ocr_seen[i]) =>
            IF ocr_seen[i].kind = "falsy" \/ (ocr_seen[i].kind = "legacy" /\ ocr_seen[i].recs = <<>>)
            THEN page_texts[i] = "[No OCR results]"
            ELSE page_texts[i] = "[No text detected]"

C14_Witness ==
    /\ pc = "ex_done"
    /\ Len(page_texts) = 3
    /\ ocr_seen[1].kind = "mapping" /\ Len(ocr_seen[1].recs) = 2 /\ YieldsNoRows(ocr_seen[1])
    /\ page_texts[1] = "[No text detected]"
    /\ ocr_seen[2].kind = "falsy"
    /\ page_texts[2] = "[No OCR results]"
    /\ ocr_seen[3].kind = "legacy" /\ Len(ocr_seen[3].recs) = 1 /\ YieldsNoRows(ocr_seen[3])
    /\ page_texts[3] = "[No text detected]"

(***************************************************************************)
(* The fragment collection of one page on its own (paddle_ocr.py 105-136): *)
(* every result of either shape over a small alphabet of recognitions.     *)
(***************************************************************************)
RecTexts == {"Milk", " x ", "  ", ""}
RecScores == {29, 30, 31}
Recs == [text : RecTexts, score : RecScores, poly : {PolyMilk, <<>>}]

\* the results that pass line 102: a mapping, or a legacy list that is not empty
CollectInputs ==
    {Mapping(recs) : recs \in SeqsUpTo(Recs, MaxRecs)}
        \cup {Legacy(recs) : recs \in SeqsUpTo(Recs, MaxRecs) \ {<<>>}}

InitCollect ==
    /\ pc = "col_start"
    /\ ocr_seen \in {<<o>> : o \in CollectInputs}
    /\ fragments = <<>>
    /\ page_texts = <<>>
    /\ input = <<>>
    /\ rows = <<>>
    /\ text = ""
    /\ dir = {}
    /\ images = <<>>
    /\ page_num = 1
    /\ it = 0
    /\ visited = <<>>
    /\ ret = <<>>
    /\ error = ""
    /\ exit_code = -1
    /\ ImagesIdle

\* lines 109-133: the fragments are collected and the page text is built
CollectPage ==
    /\ pc = "col_start"
    /\ Collect(ocr_seen[1].recs).ok
    /\ fragments' = Collect(ocr_seen[1].recs).frags
    /\ page_texts' = <<BuildCleanText(fragments')>>
    /\ pc' = "col_done"
    /\ UNCHANGED <<input, rows, text, ocr_seen>>
    /\ UNCHANGED <<dirVars, it, visited, outVars, imgVars>>

\* lines 118-119 / 128-129 raise, lines 135-136 catch
CollectRaised ==
    /\ pc = "col_start"
    /\ ~Collect(ocr_seen[1].recs).ok
    /\ page_texts' = <<FailedText(Collect(ocr_seen[1].recs).msg)>>
    /\ pc' = "col_raised"
    /\ UNCHANGED <<rowVars, ocr_seen>>
    /\ UNCHANGED <<dirVars, it, visited, outVars, imgVars>>

NextCollect == CollectPage \/ CollectRaised

SpecCollect == InitCollect /\ [][NextCollect]_vars

\* the recognitions of recs that pass both filters, by their positions
KeptAt(recs) == {k \in 1..Len(recs) : Kept(recs[k])}

\* str without its leading and trailing spaces is t
TrimsTo(str, t) ==
    /\ t # ""
    /\ SubSeq(t, 1, 1) # " "
    /\ SubSeq(t, Len(t), Len(t)) # " "
    /\ \E a \in 1..Len(str) :
          /\ SubSeq(str, a, a + Len(t) - 1) = t
          /\ \A j \in (1..(a - 1)) \cup ((a + Len(t))..Len(str)) : SubSeq(str, j, j) = " "

\* C15: for either result shape the fragments collected are exactly the
\* recognitions with confidence 0.30 or more and a text that is not blank, in
\* order and with the text trimmed: confidence exactly 0.30 is kept, anything
\* below is dropped, and a blank text is dropped at any confidence.
C15_KeptIffConfidentAndNotBlank ==
    pc = "col_done" =>
        LET recs == ocr_seen[1].recs
        IN  /\ Len(fragments) = Cardinality(KeptAt(recs))
            /\ \A k \in KeptAt(recs) :
                  TrimsTo(recs[k].text, fragments[Cardinality({j \in KeptAt(recs) : j <= k})][1])

C15_Witness ==
    /\ pc = "col_done"
    /\ ocr_seen[1].kind = "legacy"
    /\ Len(ocr_seen[1].recs) = 2
    /\ ocr_seen[1].recs[1] = [text |-> "Milk", score |-> 29, poly |-> PolyMilk]
    /\ ocr_seen[1].recs[2] = [text |-> " x ", score |-> 30, poly |-> PolyMilk]
    /\ fragments = << <<"x", 100, 10>> >>

(***************************************************************************)
(* save_capped_jpeg (vlm_preprocess.py 34-51)                              *)
(* An image is [w, h, mode, origin]; origin names what it was made from:   *)
(* "original" (the page file), "rotated" or "unwarped".                    *)
(***************************************************************************)
MAX_JPEG_BYTES == 5 * 1024 * 1024

Modes == {"RGB", "RGBA", "P", "L", "LA"}

\* lines 38-39
ConvertMode(mode) == IF mode \in {"RGBA", "P"} THEN "RGB" ELSE mode

\* img.save(buf, format="JPEG") raises OSError for a mode JPEG cannot hold
JpegWritable(mode) == mode \in {"1", "L", "RGB", "RGBX", "CMYK", "YCbCr"}

\* the byte counts an encoding can have: the codec decides, the code only reads
\* buf.tell()
EncodedSizes == {MAX_JPEG_BYTES, MAX_JPEG_BYTES + 1}

ShrinkNot(n) == n

\* line 46: int(w * 0.85)
Shrink(n) == (n * 85) \div 100

OverCeilingOrAt(n) == n >= MAX_JPEG_BYTES

OverCeilingNever(n) == FALSE

\* line 44: buf.tell() > MAX_JPEG_BYTES
OverCeiling(n) == n > MAX_JPEG_BYTES

\* the page whose output file is being written (0 when called directly)
OutPage == info.page

\* an exception leaves save_capped_jpeg: to the caller of a direct call, to the
\* except clause of line 144 from the call of line 137, and out of preprocess
\* (to __main__, lines 172-176) from the call of line 151
JpegRaised(msg) ==
    /\ pc' = CASE caller = "main" -> "pre_fallback"
               [] caller = "fallback" -> "pre_failed"
               [] OTHER -> "jpeg_raised"
    /\ IF caller = "main" THEN UNCHANGED outVars ELSE ExitWithError(msg)

JpegReturned ==
    pc' = CASE caller = "main" -> "pre_saved"
            [] caller = "fallback" -> "pre_fb_saved"
            [] OTHER -> "jpeg_done"

\* lines 38-42: the mode conversion and the first encoding
JpegEncode ==
    /\ pc = "jpeg_encode"
    /\ img' = [img EXCEPT !.mode = ConvertMode(img.mode)]
    /\ IF JpegWritable(img'.mode)
       THEN /\ \E n \in EncodedSizes : buf' = n
            /\ first_buf' = buf'
            /\ pc' = "jpeg_loop"
            /\ UNCHANGED outVars
       ELSE /\ JpegRaised("cannot write mode " \o img'.mode \o " as JPEG")
            /\ UNCHANGED <<buf, first_buf>>
    /\ UNCHANGED <<rowVars, dirVars, it, visited, exVars>>
    /\ UNCHANGED <<disk, info, pages, angle, tmp_path, tmps, stage, resizes, caller, files>>

\* line 44: the loop condition holds, the body is entered
JpegTest ==
    /\ pc = "jpeg_loop"
    /\ OverCeiling(buf)
    /\ pc' = "jpeg_body"
    /\ UNCHANGED <<rowVars, dirVars, it, visited, exVars, outVars, imgVars>>

\* lines 45-48: the body of the loop; resize raises ValueError when a side would
\* have no pixel
JpegResize ==
    /\ pc = "jpeg_body"
    /\ IF Shrink(img.w) < 1 \/ Shrink(img.h) < 1
       THEN /\ JpegRaised("height and width must be > 0")
            /\ UNCHANGED <<img, buf, resizes>>
       ELSE /\ img' = [img EXCEPT !.w = Shrink(img.w), !.h = Shrink(img.h)]
            /\ \E n \in EncodedSizes : buf' = n
            /\ resizes' = IF resizes < MaxResizes THEN resizes + 1 ELSE resizes
            /\ pc' = "jpeg_loop"
            /\ UNCHANGED outVars
    /\ UNCHANGED <<rowVars, dirVars, it, visited, exVars>>
    /\ UNCHANGED <<disk, info, pages, angle, tmp_path, tmps, stage, first_buf, caller, files>>

\* lines 50-51: the buffer is written to out_path; open / write can raise OSError
JpegWrite ==
    /\ pc = "jpeg_loop"
    /\ ~OverCeiling(buf)
    /\ \/ /\ files' = {f \in files : f.page # OutPage} \cup
                      {[page |-> OutPage, origin |-> img.origin, bytes |-> buf]}
          /\ JpegReturned
          /\ UNCHANGED outVars
       \/ /\ JpegRaised("cannot write the output file")
          /\ UNCHANGED files
    /\ UNCHANGED <<rowVars, dirVars, it, visited, exVars>>
    /\ UNCHANGED <<disk, img, info, pages, angle, tmp_path, tmps, stage, buf, first_buf, resizes, caller>>

InitJpeg ==
    /\ pc = "jpeg_encode"
    /\ caller = "direct"
    /\ \E w, h \in 1..MaxDim, mode \in Modes :
          img = [w |-> w, h |-> h, mode |-> mode, origin |-> "original"]
    /\ buf = -1
    /\ first_buf = -1
    /\ resizes = 0
    /\ files = {}
    /\ disk = <<>>
    /\ info = NoInfo
    /\ pages = <<>>
    /\ angle = 0
    /\ tmp_path = 0
    /\ tmps = {}
    /\ stage = ""
    /\ dir = {}
    /\ images = <<>>
    /\ page_num = 1
    /\ it = 0
    /\ visited = <<>>
    /\ page_texts = <<>>
    /\ ocr_seen = <<>>
    /\ ret = <<>>
    /\ error = ""
    /\ exit_code = -1
    /\ input = <<>>
    /\ fragments = <<>>
    /\ rows = <<>>
    /\ text = ""

NextJpeg == JpegEncode \/ JpegTest \/ JpegResize \/ JpegWrite

SpecJpeg == InitJpeg /\ [][NextJpeg]_vars

\* the function runs on: a call that has started takes its next step
SpecJpegRuns == SpecJpeg /\ WF_vars(NextJpeg)

JpegOver == pc \in {"jpeg_done", "jpeg_raised"}

\* C7: every call of save_capped_jpeg comes to an end (it returns or an exception
\* leaves it), whatever sizes the encodings have.
C7_CappingLoopTerminates == <>JpegOver

\* the loop ran while no encoding came under the ceiling, down to an image no
\* further resize can shrink
C7_Witness ==
    /\ pc = "jpeg_raised"
    /\ resizes >= 3
    /\ first_buf > MAX_JPEG_BYTES
    /\ buf >= first_buf
    /\ img.w = 1

\* C8: a file written by save_capped_jpeg holds at most 5 MiB, and it holds the
\* bytes of the last encoding; while the first encoding is at or under the ceiling
\* no resize has run.
C8_WrittenFileUnderCeiling ==
    /\ \A f \in files : f.bytes <= 5 * 1024 * 1024
    /\ pc = "jpeg_done" =>
          /\ files = {[page |-> 0, origin |-> "original", bytes |-> buf]}
          /\ first_buf <= 5 * 1024 * 1024 => resizes = 0 /\ buf = first_buf

C8_Witness ==
    /\ pc = "jpeg_done"
    /\ first_buf > 5 * 1024 * 1024
    /\ resizes >= 2
    /\ \E f \in files : f.bytes = 5 * 1024 * 1024

(***************************************************************************)
(* preprocess (vlm_preprocess.py 54-156) and its __main__ (169-176)        *)
(***************************************************************************)
Digit == <<"0", "1", "2", "3", "4", "5", "6", "7", "8", "9">>

\* the decimal text of a number, as an f-string prints it
RECURSIVE IntStr(_)
IntStr(n) == IF n < 10 THEN Digit[n + 1] ELSE IntStr(n \div 10) \o Digit[(n % 10) + 1]

OutFileZeroBased(p) == "page_" \o IntStr(p - 1) \o "_pre.jpg"

\* line 135 / 149: f"page_{page_idx}_pre.jpg"
OutFile(p) == "page_" \o IntStr(p) \o "_pre.jpg"

\* what a page file can hold: an image Image.open reads, or bytes it rejects
Unreadable == [ok |-> FALSE, w |-> 0, h |-> 0, mode |-> ""]
PageFiles ==
    { Unreadable,
      [ok |-> TRUE, w |-> 3, h |-> 2, mode |-> "RGBA"],
      [ok |-> TRUE, w |-> 2, h |-> 2, mode |-> "LA"] }

\* the labels the orientation classifier gives
Angles == {0, 90, 180}

\* Image.open(img_path)
Loaded(file) == [w |-> file.w, h |-> file.h, mode |-> file.mode, origin |-> "original"]

\* line 100: img.rotate(angle, expand=True)
Rotate(im, a) ==
    IF a \in {90, 270}
    THEN [w |-> im.h, h |-> im.w, mode |-> im.mode, origin |-> "rotated"]
    ELSE [im EXCEPT !.origin = "rotated"]

\* line 122: Image.fromarray(doctr_img[:, :, ::-1])
Unwarped(im) == [w |-> im.w, h |-> im.h, mode |-> "RGB", origin |-> "unwarped"]

InitPre ==
    /\ pc = "pre_load"
    /\ dir \in SUBSET (1..MaxPrePages)
    /\ disk \in [dir -> PageFiles]
    /\ images = <<>>
    /\ page_num = 1
    /\ it = 0
    /\ visited = <<>>
    /\ img = NoImage
    /\ info = NoInfo
    /\ pages = <<>>
    /\ angle = 0
    /\ tmp_path = 0
    /\ tmps = {}
    /\ stage = ""
    /\ buf = -1
    /\ first_buf = -1
    /\ resizes = 0
    /\ caller = ""
    /\ files = {}
    /\ page_texts = <<>>
    /\ ocr_seen = <<>>
    /\ ret = <<>>
    /\ error = ""
    /\ exit_code = -1
    /\ input = <<>>
    /\ fragments = <<>>
    /\ rows = <<>>
    /\ text = ""

\* lines 60-70: both models are loaded once; loading can fail
PreLoadModels ==
    /\ pc = "pre_load"
    /\ \/ /\ pc' = "pre_find"
          /\ UNCHANGED outVars
       \/ /\ pc' = "pre_load_failed"
          /\ ExitWithError("the model could not be created")
    /\ UNCHANGED <<rowVars, dirVars, it, visited, exVars, imgVars>>

\* lines 75-80, one iteration that finds the page
PreFindPage ==
    /\ pc = "pre_find"
    /\ FindPage
    /\ UNCHANGED <<pc, rowVars, it, visited, exVars, outVars, imgVars>>

\* lines 77-78
PreFindStop ==
    /\ pc = "pre_find"
    /\ FindStop
    /\ pc' = "pre_found"
    /\ UNCHANGED <<rowVars, it, visited, exVars, outVars, imgVars>>

\* lines 82-83 and 172-176
PreNoPages ==
    /\ pc = "pre_found"
    /\ images = <<>>
    /\ ExitWithError(NoPagesMessage)
    /\ pc' = "pre_failed"
    /\ UNCHANGED <<rowVars, dirVars, it, visited, exVars, imgVars>>

\* line 85
PreStartLoop ==
    /\ pc = "pre_found"
    /\ images # <<>>
    /\ pages' = <<>>
    /\ pc' = "pre_loop"
    /\ UNCHANGED <<rowVars, dirVars, it, visited, exVars, outVars, jpegVars>>
    /\ UNCHANGED <<disk, img, info, angle, tmp_path, tmps, stage>>

\* lines 86-88: the loop takes the next image
PreNextPage ==
    /\ pc = "pre_loop"
    /\ it < Len(images)
    /\ it' = it + 1
    /\ visited' = Append(visited, images[it + 1])
    /\ info' = [page |-> Len(pages) + 1, rotated |-> 0, unwarped |-> FALSE, file |-> ""]
    /\ img' = NoImage
    /\ angle' = 0
    /\ tmp_path' = 0
    /\ stage' = ""
    /\ pc' = "pre_orient"
    /\ UNCHANGED <<rowVars, dirVars, exVars, outVars, jpegVars>>
    /\ UNCHANGED <<disk, pages, tmps>>

\* lines 92-94: the classifier call, or int() of its label, can raise
PreOrient ==
    /\ pc = "pre_orient"
    /\ \/ \E a \in Angles :
             /\ angle' = a
             /\ info' = [info EXCEPT !.rotated = a]
             /\ pc' = "pre_open"
       \/ /\ pc' = "pre_fallback"
          /\ UNCHANGED <<angle, info>>
    /\ UNCHANGED <<rowVars, dirVars, it, visited, exVars, outVars, jpegVars>>
    /\ UNCHANGED <<disk, img, pages, tmp_path, tmps, stage>>

\* lines 96-102
PreOpen ==
    /\ pc = "pre_open"
    /\ IF disk[visited[it]].ok
       THEN /\ img' = IF angle # 0 THEN Rotate(Loaded(disk[visited[it]]), angle)
                      ELSE Loaded(disk[visited[it]])
            /\ pc' = "pre_unwarp"
       ELSE /\ pc' = "pre_fallback"
            /\ UNCHANGED img
    /\ UNCHANGED <<rowVars, dirVars, it, visited, exVars, outVars, jpegVars>>
    /\ UNCHANGED <<disk, info, pages, angle, tmp_path, tmps, stage>>

\* lines 105-115: the input of the unwarping model; the temporary file is made
\* (delete=False), then img.save(tmp_path) can raise, which line 130 catches
PreUnwarpInput ==
    /\ pc = "pre_unwarp"
    /\ IF angle # 0
       THEN /\ tmp_path' = info.page
            /\ tmps' = tmps \cup {info.page}
            /\ \/ pc' = "pre_predict" /\ UNCHANGED stage
               \/ pc' = "pre_encode" /\ stage' = "unsaved"
       ELSE /\ tmp_path' = 0
            /\ pc' = "pre_predict"
            /\ UNCHANGED <<tmps, stage>>
    /\ UNCHANGED <<rowVars, dirVars, it, visited, exVars, outVars, jpegVars>>
    /\ UNCHANGED <<disk, img, info, pages, angle>>

UnlinkedNever(set, path) == set

\* lines 127-128: if tmp_path: os.unlink(tmp_path)
Unlinked(set, path) == IF path # 0 THEN set \ {path} ELSE set

PreUnwarpPredictUncaught ==
    /\ pc = "pre_predict"
    /\ \E o \in {"array", "other", "raise"} :
          /\ img' = IF o = "array" THEN Unwarped(img) ELSE img
          /\ info' = IF o = "array" THEN [info EXCEPT !.unwarped = TRUE] ELSE info
          /\ tmps' = IF o = "raise" THEN tmps ELSE Unlinked(tmps, tmp_path)
          /\ stage' = o
          /\ pc' = IF o = "raise" THEN "pre_fallback" ELSE "pre_encode"
    /\ UNCHANGED <<rowVars, dirVars, it, visited, exVars, outVars, jpegVars>>
    /\ UNCHANGED <<disk, pages, angle, tmp_path>>

\* lines 117-132: the model call; "array" is an ndarray result, "other" a result
\* that is no ndarray, "raise" an exception of the call, caught at line 130
PreUnwarpPredict ==
    /\ pc = "pre_predict"
    /\ \E o \in {"array", "other", "raise"} :
          /\ img' = IF o = "array" THEN Unwarped(img) ELSE img
          /\ info' = IF o = "array" THEN [info EXCEPT !.unwarped = TRUE] ELSE info
          /\ tmps' = IF o = "raise" THEN tmps ELSE Unlinked(tmps, tmp_path)
          /\ stage' = o
    /\ pc' = "pre_encode"
    /\ UNCHANGED <<rowVars, dirVars, it, visited, exVars, outVars, jpegVars>>
    /\ UNCHANGED <<disk, pages, angle, tmp_path>>

\* lines 135-137: the call of save_capped_jpeg on the working image
PreEncode ==
    /\ pc = "pre_encode"
    /\ caller' = "main"
    /\ buf' = -1
    /\ first_buf' = -1
    /\ resizes' = 0
    /\ pc' = "jpeg_encode"
    /\ UNCHANGED <<rowVars, dirVars, it, visited, exVars, outVars, preVars, files>>

\* lines 138-142 and 154
PreSaved ==
    /\ pc = "pre_saved"
    /\ info' = [info EXCEPT !.file = OutFile(info.page)]
    /\ pages' = Append(pages, info')
    /\ pc' = "pre_loop"
    /\ UNCHANGED <<rowVars, dirVars, it, visited, exVars, outVars, jpegVars>>
    /\ UNCHANGED <<disk, img, angle, tmp_path, tmps, stage>>

\* lines 144-151: the original is opened again and save_capped_jpeg is called on
\* it; no try encloses these lines, an exception here leaves preprocess
PreFallback ==
    /\ pc = "pre_fallback"
    /\ IF disk[visited[it]].ok
       THEN /\ img' = Loaded(disk[visited[it]])
            /\ caller' = "fallback"
            /\ buf' = -1
            /\ first_buf' = -1
            /\ resizes' = 0
            /\ pc' = "jpeg_encode"
            /\ UNCHANGED outVars
       ELSE /\ ExitWithError("cannot identify image file")
            /\ pc' = "pre_failed"
            /\ UNCHANGED <<img, caller, buf, first_buf, resizes>>
    /\ UNCHANGED <<rowVars, dirVars, it, visited, exVars, files>>
    /\ UNCHANGED <<disk, info, pages, angle, tmp_path, tmps, stage>>

\* lines 152 and 154
PreFallbackSaved ==
    /\ pc = "pre_fb_saved"
    /\ info' = [info EXCEPT !.file = OutFile(info.page)]
    /\ pages' = Append(pages, info')
    /\ pc' = "pre_loop"
    /\ UNCHANGED <<rowVars, dirVars, it, visited, exVars, outVars, jpegVars>>
    /\ UNCHANGED <<disk, img, angle, tmp_path, tmps, stage>>

\* lines 156 and 170-171
PreReturn ==
    /\ pc = "pre_loop"
    /\ it = Len(images)
    /\ ret' = <<[pages |-> pages]>>
    /\ exit_code' = 0
    /\ pc' = "pre_done"
    /\ UNCHANGED <<rowVars, dirVars, it, visited, exVars, error, imgVars>>

NextPre ==
    \/ PreLoadModels \/ PreFindPage \/ PreFindStop \/ PreNoPages \/ PreStartLoop
    \/ PreNextPage \/ PreOrient \/ PreOpen \/ PreUnwarpInput \/ PreUnwarpPredict
    \/ PreEncode \/ PreSaved \/ PreFallback \/ PreFallbackSaved \/ PreReturn
    \/ JpegEncode \/ JpegTest \/ JpegResize \/ JpegWrite

SpecPre == InitPre /\ [][NextPre]_vars

\* either pipeline, run on a page directory
SpecPages == (InitExtract \/ InitPre) /\ [][NextExtract \/ NextPre]_vars

(***************************************************************************)
(* Properties of the page pipelines.                                       *)
(***************************************************************************)
\* the largest k with page_1 .. page_k all present
ContiguousPages ==
    CHOOSE k \in 0..Cardinality(dir) : (\A i \in 1..k : i \in dir) /\ (k + 1) \notin dir

\* the page discovery has not finished (or, the models failing to load, never ran)
Discovering == pc \in {"pre_load", "pre_load_failed", "ex_find", "pre_find"}

\* C3 as stated: when a run of preprocess is over, every discovered page has its
\* output file page_<n>_pre.jpg written and a record that carries the file name.
C3_EveryPageGetsOutput ==
    pc \in {"pre_done", "pre_failed"} =>
        \A p \in 1..Len(images) :
            /\ \E f \in files : f.page = p
            /\ p <= Len(pages)
            /\ pages[p].file = OutFile(p)

\* C4 as stated: outside the unwarping stage no temporary file of the stage exists.
C4_TempFileGoneAfterStage ==
    pc # "pre_predict" => tmps = {}

\* C6 as stated: once the page loop has taken a page, the run does not end in an
\* error: only a run that found no page fails.
C6_OnlyZeroPagesFails ==
    it >= 1 => exit_code # 1

\* C9: discovery yields exactly page_1 .. page_k, k the largest index with every
\* index 1..k present; the page loop takes these pages in index order and no other;
\* a run that returns has taken and counted exactly k pages.
C9_ContiguousPagesOnly ==
    /\ images = [i \in 1..Len(images) |-> i]
    /\ Len(images) <= ContiguousPages
    /\ ~Discovering => Len(images) = ContiguousPages
    /\ visited = [i \in 1..it |-> i]
    /\ it <= ContiguousPages
    /\ pc = "ex_done" =>
          /\ it = ContiguousPages
          /\ ret[1].totalPages = ContiguousPages
          /\ Len(ret[1].pages) = ContiguousPages
    /\ pc = "pre_done" =>
          /\ it = ContiguousPages
          /\ Len(ret[1].pages) = ContiguousPages

C9_Witness ==
    /\ pc \in {"ex_done", "pre_done"}
    /\ Len(images) >= 1
    /\ visited = images
    /\ \E n \in dir : n > Len(images) + 1

\* sub occurs in str
Contains(str, sub) ==
    \E a \in 1..Len(str) :
        a + Len(sub) - 1 <= Len(str) /\ SubSeq(str, a, a + Len(sub) - 1) = sub

\* C16: when the directory holds no page_1 image, a pipeline that gets to the page
\* discovery ends at the check after it, with an error whose message contains
\* "No page_*.png images found" and exit status 1; it never enters the page loop,
\* never returns a result and writes no output image (preprocess run with models
\* that fail to load ends earlier, also with status 1 and nothing written).
C16_NoFirstPageIsAnError ==
    1 \notin dir =>
        /\ pc \in {"ex_find", "ex_found", "ex_failed",
                   "pre_load", "pre_load_failed", "pre_find", "pre_found", "pre_failed"}
        /\ images = <<>>
        /\ it = 0
        /\ ret = <<>>
        /\ files = {}
        /\ tmps = {}
        /\ exit_code # 0
        /\ pc \in {"ex_failed", "pre_failed", "pre_load_failed"} => exit_code = 1
        /\ pc \in {"ex_failed", "pre_failed"} => Contains(error, "No page_*.png images found")

C16_Witness ==
    /\ pc = "pre_failed"
    /\ dir = {2}
    /\ exit_code = 1
    /\ Contains(error, "No page_*.png images found")
    /\ files = {}

\* the unwarping stage of the page in hand ran and did not give a corrected image
StageFailed == stage \in {"other", "raise", "unsaved"}

\* the working image as the orientation stage left it (lines 96-100)
ImageBeforeStage ==
    IF angle # 0 THEN Rotate(Loaded(disk[visited[it]]), angle) ELSE Loaded(disk[visited[it]])

\* the page in hand is in save_capped_jpeg, called from line 137
InMainEncoding == caller = "main" /\ pc \in {"jpeg_encode", "jpeg_loop", "jpeg_body"}

\* a step out of the unwarping stage goes on within it or to the encoding stage
StageLeadsToEncoding ==
    (pc \in {"pre_unwarp", "pre_predict"}) => (pc' \in {"pre_predict", "pre_encode"})

\* a step into the fallback after the stage ran comes from the encoding
FallbackOnlyFromEncoding ==
    (pc' = "pre_fallback" /\ stage' # "") => InMainEncoding

\* C17: when the unwarping stage fails (the temporary file cannot be saved, the
\* model raises, or its result is no array) the next step is the encoding stage,
\* never the fallback; the image given to it is the one the orientation stage left
\* (rotated when the angle is not 0, else the loaded original), the record keeps
\* the angle and has unwarped = false, and the file the encoding writes comes from
\* that image. The fallback is entered after such a stage only from the encoding.
C17_FailedUnwarpKeepsWorkingImage ==
    /\ [](StageFailed /\ pc = "pre_encode" =>
            /\ img = ImageBeforeStage
            /\ ~info.unwarped
            /\ info.rotated = angle)
    /\ [](StageFailed /\ pc = "pre_saved" =>
            /\ \E f \in files : f.page = info.page /\ f.origin = ImageBeforeStage.origin
            /\ ~info.unwarped
            /\ info.rotated = angle)
    /\ [][StageLeadsToEncoding]_vars
    /\ [][FallbackOnlyFromEncoding]_vars

C17_Witness ==
    /\ pc = "pre_saved"
    /\ stage = "raise"
    /\ angle = 90
    /\ info = [page |-> 2, rotated |-> 90, unwarped |-> FALSE, file |-> ""]
    /\ \E f \in files : f.page = 2 /\ f.origin = "rotated"

\* C18: a run that found N >= 1 pages and returned holds one entry per page, in
\* page order: extract returns N page texts, the i-th the text of the i-th page's
\* OCR result, and totalPages = N; preprocess returns N records, the i-th with
\* page = i and file = page_<i>_pre.jpg, and a file was written for page i. While
\* the loop runs the list has one entry per page taken, so none is recorded twice
\* or skipped.
C18_OneEntryPerPage ==
    /\ pc = "ex_loop" => Len(page_texts) = it
    /\ pc = "pre_loop" => Len(pages) = it
    /\ pc \in {"ex_done", "pre_done"} => Len(images) >= 1 /\ visited = images
    /\ pc = "ex_done" =>
          /\ Len(ret[1].pages) = Len(images)
          /\ ret[1].totalPages = Len(images)
          /\ \A i \in 1..Len(images) : ret[1].pages[i] = ExtractPageText(ocr_seen[i])
    /\ pc = "pre_done" =>
          /\ Len(ret[1].pages) = Len(images)
          /\ \A i \in 1..Len(images) :
                /\ ret[1].pages[i].page = i
                /\ ret[1].pages[i].file = "page_" \o IntStr(i) \o "_pre.jpg"
                /\ \E f \in files : f.page = i

C18_Witness ==
    /\ pc = "pre_done"
    /\ Len(images) = 2
    /\ ret[1].pages[1] = [page |-> 1, rotated |-> 0, unwarped |-> FALSE, file |-> "page_1_pre.jpg"]
    /\ ret[1].pages[2] = [page |-> 2, rotated |-> 180, unwarped |-> TRUE, file |-> "page_2_pre.jpg"]
    /\ \E f \in files : f.page = 1 /\ f.origin = "original"
    /\ \E f \in files : f.page = 2 /\ f.origin = "unwarped"

\* C19 as stated: in every record that preprocess returns, unwarped = true only if
\* the output file of the page was encoded from the unwarping model's image; a
\* page whose file comes from the fallback has unwarped = false.
C19_UnwarpedFlagMatchesFile ==
    pc = "pre_done" =>
        \A i \in 1..Len(ret[1].pages) :
            ret[1].pages[i].unwarped =>
                \E f \in files : f.page = i /\ f.origin = "unwarped"

====
